---- MODULE Spec2Model ----
(***************************************************************************)
(* Model of downloader.py: the playlist/comment synchronisation against a *)
(* shared SQLite file.  Each process is one invocation of the script; the *)
(* store is modelled with SQLite's file locks (SHARED / RESERVED /        *)
(* PENDING-EXCLUSIVE), one uncommitted transaction per writer, and tables *)
(* as sequences of rows in rowid order.                                    *)
(***************************************************************************)
EXTENDS Integers, Sequences, FiniteSets, TLC

\* ------------------------------------------------------------------ bounds
MaxClock == 1
MaxListing == 2
MaxComments == 2
MaxStdout == 9

\* ----------------------------------------------------------------- domains
Procs == {"p1", "p2"}
Playlists == {"P1", "P2"}
Videos == {"v1", "v2"}
ListingPairs == {<<"v1", "Title A">>, <<"v1", "Title B">>, <<"v2", "Title B">>}
NoProc == "none"

\* votes as the collaborator delivers them: a numeric string, a number,
\* a non-numeric string, None, or no 'votes' key at all
NoneValue == [type |-> "None"]
Missing == [type |-> "missing"]
IntValue(n) == [type |-> "int", val |-> n]
StrValue(s) == [type |-> "str", chars |-> s]
CommentRecords ==
    { [cid |-> "c1", text |-> "t1", author |-> "a1", votes |-> StrValue(<<"1", "2">>), time_parsed |-> 1],
      [cid |-> "c2", text |-> "t2", author |-> "a2", votes |-> NoneValue, time_parsed |-> 2],
      [cid |-> "c1", text |-> "t3", author |-> "a2", votes |-> StrValue(<<"a">>), time_parsed |-> 3] }

SeqsUpTo(S, n) == UNION {[1..k -> S] : k \in 0..n}
Listings == SeqsUpTo(ListingPairs, MaxListing)
Feeds == SeqsUpTo(CommentRecords, MaxComments)

TableOrder == <<"playlists", "videos", "playlist_videos", "comments", "fts_comments">>

\* --------------------------------------------------------------- the store
EmptyDb ==
    [playlists |-> <<>>, videos |-> <<>>, playlist_videos |-> <<>>,
     comments |-> <<>>, fts_comments |-> <<>>]

Max(S) == CHOOSE x \in S : \A y \in S : y <= x

\* INSERT OR IGNORE INTO playlists (name, last_updated): name is UNIQUE,
\* id is AUTOINCREMENT
InsertPlaylistAlways(d, name, ts) ==
    [d EXCEPT !.playlists =
        Append(@, [id |-> Max({0} \cup {@[i].id : i \in 1..Len(@)}) + 1,
                   name |-> name, last_updated |-> ts])]

InsertOrIgnorePlaylist(d, name, ts) ==
    IF \E i \in 1..Len(d.playlists) : d.playlists[i].name = name
    THEN d
    ELSE [d EXCEPT !.playlists =
            Append(@, [id |-> Max({0} \cup {@[i].id : i \in 1..Len(@)}) + 1,
                       name |-> name, last_updated |-> ts])]

\* UPDATE playlists SET last_updated = ? WHERE name = ?
UpdatePlaylist(d, name, ts) ==
    [d EXCEPT !.playlists =
        [i \in 1..Len(@) |->
            IF @[i].name = name THEN [@[i] EXCEPT !.last_updated = ts] ELSE @[i]]]

\* SELECT id FROM playlists WHERE name = ? ; fetchone()[0]
SelectPlaylistId(d, name) ==
    LET i == CHOOSE k \in 1..Len(d.playlists) : d.playlists[k].name = name
    IN  d.playlists[i].id

\* INSERT OR IGNORE INTO videos (id, title, is_available, last_updated)
\* VALUES (?, ?, 1, ?): id is the PRIMARY KEY
InsertOrReplaceVideo(d, vid, title, ts) ==
    [d EXCEPT !.videos =
        Append(SelectSeq(@, LAMBDA r : r.id # vid),
               [id |-> vid, title |-> title, is_available |-> 1, last_updated |-> ts])]

InsertOrIgnoreVideo(d, vid, title, ts) ==
    IF \E i \in 1..Len(d.videos) : d.videos[i].id = vid
    THEN d
    ELSE [d EXCEPT !.videos =
            Append(@, [id |-> vid, title |-> title, is_available |-> 1,
                       last_updated |-> ts])]

\* UPDATE videos SET last_updated = ?, is_available = 1 WHERE id = ?
UpdateVideoTimestampOnly(d, vid, ts) ==
    [d EXCEPT !.videos =
        [i \in 1..Len(@) |->
            IF @[i].id = vid THEN [@[i] EXCEPT !.last_updated = ts] ELSE @[i]]]

UpdateVideo(d, vid, ts) ==
    [d EXCEPT !.videos =
        [i \in 1..Len(@) |->
            IF @[i].id = vid
            THEN [@[i] EXCEPT !.last_updated = ts, !.is_available = 1]
            ELSE @[i]]]

\* INSERT OR IGNORE INTO playlist_videos (playlist_id, video_id, last_updated):
\* UNIQUE (playlist_id, video_id)
InsertOrIgnoreMembership(d, plid, vid, ts) ==
    IF \E i \in 1..Len(d.playlist_videos) :
          /\ d.playlist_videos[i].playlist_id = plid
          /\ d.playlist_videos[i].video_id = vid
    THEN d
    ELSE [d EXCEPT !.playlist_videos =
            Append(@, [playlist_id |-> plid, video_id |-> vid, last_updated |-> ts])]


\* SELECT EXISTS(SELECT 1 FROM comments WHERE video_id = ? LIMIT 1)
SelectCommentsExistById(d, vid) ==
    \E i \in 1..Len(d.comments) : d.comments[i].id = vid

SelectCommentsExist(d, vid) ==
    \E i \in 1..Len(d.comments) : d.comments[i].video_id = vid

\* INSERT OR IGNORE INTO comments (id, video_id, text, author, votes,
\* time_parsed): id is the PRIMARY KEY
InsertCommentIgnoredAlways(d, cid, vid, text, author, votes, tp) == d

InsertOrReplaceComment(d, cid, vid, text, author, votes, tp) ==
    [d EXCEPT !.comments =
        Append(SelectSeq(@, LAMBDA r : r.id # cid),
               [id |-> cid, video_id |-> vid, text |-> text,
                author |-> author, votes |-> votes, time_parsed |-> tp])]

InsertOrIgnoreComment(d, cid, vid, text, author, votes, tp) ==
    IF \E i \in 1..Len(d.comments) : d.comments[i].id = cid
    THEN d
    ELSE [d EXCEPT !.comments =
            Append(@, [id |-> cid, video_id |-> vid, text |-> text,
                       author |-> author, votes |-> votes, time_parsed |-> tp])]

\* INSERT OR REPLACE INTO fts_comments (id, text): an fts5 table has no key
\* but its rowid, which the statement does not give, so REPLACE never finds
\* a conflicting row and every execution adds one
InsertOrReplaceFts(d, cid, text) ==
    [d EXCEPT !.fts_comments = Append(@, [id |-> cid, text |-> text])]

\* init_db creates one full-text table, fts_comments, and save_playlist
\* writes to playlists, videos and playlist_videos only: the store holds no
\* full-text entries over (video id, title)
TitleFullText(d) == <<>>

\* ------------------------------------------------- the listing collaborator
\* yt-dlp's standard output, a string: a sequence of characters
Tab == "\t"
Newline == "\n"
Whitespace == {" ", Tab, Newline, "\r"}
StdoutChars == {"x", Tab, Newline}
Stdouts == SeqsUpTo(StdoutChars, MaxStdout)

\* str.strip()
RECURSIVE LStrip(_)
LStrip(s) == IF s # <<>> /\ s[1] \in Whitespace THEN LStrip(Tail(s)) ELSE s
RECURSIVE RStrip(_)
RStrip(s) ==
    IF s # <<>> /\ s[Len(s)] \in Whitespace THEN RStrip(SubSeq(s, 1, Len(s) - 1)) ELSE s
StrStrip(s) == RStrip(LStrip(s))

\* str.split(sep, maxsplit): maxsplit = -1 is no limit
RECURSIVE StrSplitUnlimited(_, _, _)
StrSplitUnlimited(s, sep, maxsplit) ==
    IF \A i \in 1..Len(s) : s[i] # sep
    THEN <<s>>
    ELSE LET k == CHOOSE i \in 1..Len(s) :
                      s[i] = sep /\ \A j \in 1..(i - 1) : s[j] # sep
         IN  <<SubSeq(s, 1, k - 1)>>
             \o StrSplitUnlimited(SubSeq(s, k + 1, Len(s)), sep, maxsplit)

RECURSIVE StrSplit(_, _, _)
StrSplit(s, sep, maxsplit) ==
    IF maxsplit = 0 \/ \A i \in 1..Len(s) : s[i] # sep
    THEN <<s>>
    ELSE LET k == CHOOSE i \in 1..Len(s) :
                      s[i] = sep /\ \A j \in 1..(i - 1) : s[j] # sep
         IN  <<SubSeq(s, 1, k - 1)>> \o StrSplit(SubSeq(s, k + 1, Len(s)), sep, maxsplit - 1)

\* ------------------------------------------------------- the vote coercion
\* int(str): whitespace around is ignored, then an optional sign, then digits,
\* single underscores allowed between digits; anything else is a ValueError
Digits == <<"0", "1", "2", "3", "4", "5", "6", "7", "8", "9">>
IsDigit(c) == \E k \in 1..Len(Digits) : Digits[k] = c
DigitVal(c) == (CHOOSE k \in 1..Len(Digits) : Digits[k] = c) - 1
RECURSIVE ParseInt(_)
ParseInt(chars) ==
    IF chars = <<>> THEN 0
    ELSE ParseInt(SubSeq(chars, 1, Len(chars) - 1)) * 10 + DigitVal(chars[Len(chars)])

IntOfStr(chars) ==
    LET t == StrStrip(chars)
        signed == t # <<>> /\ t[1] \in {"+", "-"}
        body == IF signed THEN Tail(t) ELSE t
        wellformed ==
            /\ body # <<>>
            /\ \A k \in 1..Len(body) : IsDigit(body[k]) \/ body[k] = "_"
            /\ IsDigit(body[1]) /\ IsDigit(body[Len(body)])
            /\ \A k \in 1..(Len(body) - 1) : ~(body[k] = "_" /\ body[k + 1] = "_")
        magnitude == ParseInt(SelectSeq(body, IsDigit))
    IN  IF wellformed
        THEN [ok |-> TRUE, val |-> IF signed /\ t[1] = "-" THEN 0 - magnitude ELSE magnitude]
        ELSE [ok |-> FALSE, val |-> 0]

\* try: votes = int(comment['votes'] or 0) / except: votes = 0
\* (a missing key is a KeyError, caught; None and "" are falsy, so 0)
CoerceVotesLeadingDigits(v) ==
    CASE v.type = "missing" -> 0
      [] v.type = "None" -> 0
      [] v.type = "int" -> v.val
      [] v.type = "str" ->
            LET n == CHOOSE k \in 0..Len(v.chars) :
                        /\ \A j \in 1..k : IsDigit(v.chars[j])
                        /\ k = Len(v.chars) \/ ~IsDigit(v.chars[k + 1])
            IN  ParseInt(SubSeq(v.chars, 1, n))

CoerceVotes(v) ==
    CASE v.type = "missing" -> 0
      [] v.type = "None" -> 0
      [] v.type = "int" -> v.val
      [] v.type = "str" ->
            IF v.chars = <<>> THEN 0
            ELSE IF IntOfStr(v.chars).ok THEN IntOfStr(v.chars).val ELSE 0

\* the vote fields a record may carry, each with a text that names the case
VoteCases ==
    { <<"numeric", StrValue(<<"1", "2">>)>>,
      <<"negative", StrValue(<<"-", "5">>)>>,
      <<"number", IntValue(7)>>,
      <<"null", NoneValue>>,
      <<"missing", Missing>>,
      <<"empty", StrValue(<<>>)>>,
      <<"letters", StrValue(<<"a">>)>>,
      <<"suffixed", StrValue(<<"1", "a">>)>> }
VoteRecords ==
    { [cid |-> c[1], text |-> c[1], author |-> "a1", votes |-> c[2], time_parsed |-> 1] :
        c \in VoteCases }

\* ------------------------------------------------------------------ errors
LockedError == [cls |-> "OperationalError", msg |-> <<"database", "is", "locked">>]
OtherErrors == { [cls |-> "OperationalError", msg |-> <<"disk", "i/o", "error">>] }
FetchError == [cls |-> "RequestException", msg |-> <<"connection", "failed">>]

Contains(msg, words) ==
    \E k \in 0..(Len(msg) - Len(words)) :
        \A j \in 1..Len(words) : msg[k + j] = words[j]

\* except sqlite3.OperationalError as e:
\*     if "database is locked" in str(e).lower(): sleep and retry; else: raise
RetryAnyOperationalError(e) ==
    IF e.cls = "OperationalError" THEN "retry" ELSE "raise"

Classify(e) ==
    IF e.cls = "OperationalError" /\ Contains(e.msg, <<"database", "is", "locked">>)
    THEN "retry"
    ELSE "raise"

\* ------------------------------------------------------------------- state
VARIABLES
    schema,     \* the tables that exist in the database file
    db,         \* the committed contents of the file
    tx,         \* the write-lock holder's uncommitted view (db when nobody writes)
    writer,     \* the process holding the RESERVED lock, or NoProc
    exclusive,  \* TRUE while the writer holds PENDING/EXCLUSIVE (it is committing)
    readers,    \* the processes holding a SHARED lock
    now,        \* the clock read by datetime.utcnow()
    pc,         \* each process's position
    ewr,        \* each process's position inside execute_with_retry: "try" or "sleep"
    call,       \* each process's current call: its arguments and locals
    err,        \* the exception that ended each process, if any
    listing,    \* per playlist, the listings the listing collaborator may return
    feed,       \* per video, the comment sequences the comment collaborator may return
    sync        \* the progress of the full-sync runs (save_playlist, then
                \* download_comments per item) and the tables as the first run left them

vars == <<schema, db, tx, writer, exclusive, readers, now, pc, ewr, call, err,
          listing, feed, sync>>

NoCall == [op |-> "none"]
NoErr == [cls |-> "none", msg |-> <<>>]

\* sys.exit(code) raises SystemExit; the interpreter ends the process with
\* that code, with 1 after any other exception nobody caught, with 0 when the
\* script ran to its end
SystemExit(code) == [cls |-> "SystemExit", msg |-> <<>>, code |-> code]
ExitCode(p) ==
    IF err[p].cls = "SystemExit" THEN err[p].code
    ELSE IF err[p] = NoErr THEN 0 ELSE 1

NoSync ==
    [stage |-> [p \in Procs |-> "off"], todo |-> [p \in Procs |-> <<>>], snap |-> EmptyDb]

\* no database file yet, no invocation started
InitStore ==
    /\ schema = {}
    /\ db = EmptyDb
    /\ tx = EmptyDb
    /\ writer = NoProc
    /\ exclusive = FALSE
    /\ readers = {}
    /\ now = 0
    /\ pc = [p \in Procs |-> "idle"]
    /\ ewr = [p \in Procs |-> "try"]
    /\ call = [p \in Procs |-> NoCall]
    /\ err = [p \in Procs |-> NoErr]

\* the collaborators may return anything on any call
Init ==
    /\ InitStore
    /\ listing = [u \in Playlists |-> Listings]
    /\ feed = [v \in Videos |-> Feeds]
    /\ sync = NoSync

\* ------------------------------------------------------------ the processes
\* A process is one invocation of the script: init_db, then its operation.
Final == {"done", "raised", "interrupted", "usage"}

\* the view of the store a statement of p runs against: its own open
\* transaction, or the committed file
View(p) == IF writer = p THEN tx ELSE db

\* what the process's connection holds is given up when the connection goes
\* away without a commit: the open transaction is rolled back
KeepUncommitted(p) ==
    /\ db' = IF writer = p THEN tx ELSE db
    /\ tx' = tx
    /\ writer' = IF writer = p THEN NoProc ELSE writer
    /\ exclusive' = IF writer = p THEN FALSE ELSE exclusive
    /\ readers' = readers \ {p}

RolledBack(p) ==
    /\ db' = db
    /\ tx' = IF writer = p THEN db ELSE tx
    /\ writer' = IF writer = p THEN NoProc ELSE writer
    /\ exclusive' = IF writer = p THEN FALSE ELSE exclusive
    /\ readers' = readers \ {p}

\* what is left of a call that did not return
Aborted(c) ==
    IF c.op = "download_comments"
    THEN [op |-> c.op, video |-> c.video,
          partial |-> c.writes > 0 /\ c.i <= Len(c.comments)]
    ELSE IF c.op = "save_playlist"
         THEN [op |-> c.op, partial |-> c.playlist_id # 0]
         ELSE [op |-> c.op]

\* an exception leaves the operation and ends the process (no handler but
\* the one for KeyboardInterrupt)
Raise(p, e) ==
    /\ pc' = [pc EXCEPT ![p] = "raised"]
    /\ err' = [err EXCEPT ![p] = e]
    /\ ewr' = [ewr EXCEPT ![p] = "try"]
    /\ call' = [call EXCEPT ![p] = Aborted(@)]
    /\ RolledBack(p)
    /\ UNCHANGED <<schema, now, listing, feed, sync>>

\* cur.execute of a writing statement succeeded inside execute_with_retry:
\* the first one of a transaction takes the RESERVED lock
ExecutedAutocommit(p, d, nextpc, newcall) ==
    /\ ewr[p] = "try"
    /\ writer \in {NoProc, p}
    /\ tx' = d
    /\ db' = d
    /\ pc' = [pc EXCEPT ![p] = nextpc]
    /\ call' = [call EXCEPT ![p] = newcall]
    /\ UNCHANGED <<schema, writer, exclusive, readers, now, ewr, err, listing, feed, sync>>

Executed(p, d, nextpc, newcall) ==
    /\ ewr[p] = "try"
    /\ writer \in {NoProc, p}
    /\ tx' = d
    /\ writer' = p
    /\ pc' = [pc EXCEPT ![p] = nextpc]
    /\ call' = [call EXCEPT ![p] = newcall]
    /\ UNCHANGED <<schema, db, exclusive, readers, now, ewr, err, listing, feed, sync>>

\* the statements that go through execute_with_retry
RetryStmts ==
    {"create", "sp_insert_playlist", "sp_update_playlist", "sp_select_playlist",
     "sp_insert_video", "sp_update_video", "sp_insert_membership",
     "dc_insert_comment", "dc_insert_fts"}

\* the store cannot give p the lock its next statement needs
Blocked(p) ==
    CASE pc[p] = "create" ->
            IF TableOrder[call[p].i] \in schema
            THEN exclusive /\ writer # p
            ELSE writer \notin {NoProc, p} \/ readers \ {p} # {}
      [] pc[p] \in RetryStmts \ {"create"} -> writer \notin {NoProc, p}
      [] pc[p] = "ce_select" -> exclusive /\ writer # p
      [] pc[p] = "commit" -> writer = p /\ readers \ {p} # {}
      [] OTHER -> FALSE

\* the errors cur.execute / conn.commit can raise at this point
StoreErrors(p) == OtherErrors \cup (IF Blocked(p) THEN {LockedError} ELSE {})

\* ---- execute_with_retry: the except branch
ExecuteFailed(p) ==
    /\ pc[p] \in RetryStmts
    /\ ewr[p] = "try"
    /\ \E e \in StoreErrors(p) :
          IF Classify(e) = "retry"
          THEN /\ ewr' = [ewr EXCEPT ![p] = "sleep"]
               /\ UNCHANGED <<schema, db, tx, writer, exclusive, readers, now, pc,
                              call, err, listing, feed, sync>>
          ELSE Raise(p, e)

\* time.sleep(delay) is over: the loop runs the same statement again
Retry(p) ==
    /\ ewr[p] = "sleep"
    /\ ewr' = [ewr EXCEPT ![p] = "try"]
    /\ UNCHANGED <<schema, db, tx, writer, exclusive, readers, now, pc, call, err,
                   listing, feed, sync>>

\* ---- args = parse_args(), at import: without the positional playlist_url
\* argparse prints the usage and calls sys.exit(2)
ParseArgsFailed(p) ==
    /\ pc[p] = "idle"
    /\ pc' = [pc EXCEPT ![p] = "usage"]
    /\ err' = [err EXCEPT ![p] = SystemExit(2)]
    /\ UNCHANGED <<schema, db, tx, writer, exclusive, readers, now, ewr, call,
                   listing, feed, sync>>

\* ---- init_db
StartInitDb(p) ==
    /\ pc[p] = "idle"
    /\ pc' = [pc EXCEPT ![p] = "create"]
    /\ call' = [call EXCEPT ![p] = [op |-> "init_db", i |-> 1]]
    /\ UNCHANGED <<schema, db, tx, writer, exclusive, readers, now, ewr, err,
                   listing, feed, sync>>

AfterCreate(p) == IF call[p].i = Len(TableOrder) THEN "init_commit" ELSE "create"

\* CREATE TABLE IF NOT EXISTS: nothing to do for a table that exists; a new
\* table is written outside any transaction (DDL autocommits), under the
\* exclusive lock
CreateTable(p) ==
    /\ pc[p] = "create"
    /\ ewr[p] = "try"
    /\ ~Blocked(p)
    /\ IF TableOrder[call[p].i] \in schema
       THEN /\ pc' = [pc EXCEPT ![p] = AfterCreate(p)]
            /\ call' = [call EXCEPT ![p].i = @ + 1]
            /\ UNCHANGED <<writer, exclusive>>
       ELSE /\ pc' = [pc EXCEPT ![p] = "creating"]
            /\ writer' = p
            /\ exclusive' = TRUE
            /\ UNCHANGED call
    /\ UNCHANGED <<schema, db, tx, readers, now, ewr, err, listing, feed, sync>>

CreateTableDone(p) ==
    /\ pc[p] = "creating"
    /\ schema' = schema \cup {TableOrder[call[p].i]}
    /\ writer' = NoProc
    /\ exclusive' = FALSE
    /\ pc' = [pc EXCEPT ![p] = AfterCreate(p)]
    /\ call' = [call EXCEPT ![p].i = @ + 1]
    /\ UNCHANGED <<db, tx, readers, now, ewr, err, listing, feed, sync>>

\* conn.commit() with no transaction open, conn.close(); back in main
InitDbReturn(p) ==
    /\ pc[p] = "init_commit"
    /\ pc' = [pc EXCEPT ![p] = "ready"]
    /\ call' = [call EXCEPT ![p] = NoCall]
    /\ UNCHANGED <<schema, db, tx, writer, exclusive, readers, now, ewr, err,
                   listing, feed, sync>>

\* ---- save_playlist(playlist_url, videos)
SaveCall(url, videos) ==
    [op |-> "save_playlist", url |-> url, videos |-> videos,
     i |-> 1, playlist_id |-> 0, vids |-> <<>>, t0 |-> now,
     unavail |-> {db.videos[k].id : k \in
                     {j \in 1..Len(db.videos) : db.videos[j].is_available = 0}}]

StartSavePlaylist(p) ==
    /\ pc[p] = "ready"
    /\ \E url \in Playlists : \E videos \in listing[url] :
          call' = [call EXCEPT ![p] = SaveCall(url, videos)]
    /\ pc' = [pc EXCEPT ![p] = "sp_insert_playlist"]
    /\ UNCHANGED <<schema, db, tx, writer, exclusive, readers, now, ewr, err,
                   listing, feed, sync>>

SaveInsertPlaylist(p) ==
    /\ pc[p] = "sp_insert_playlist"
    /\ Executed(p, InsertOrIgnorePlaylist(View(p), call[p].url, now),
                "sp_update_playlist", call[p])

SaveUpdatePlaylist(p) ==
    /\ pc[p] = "sp_update_playlist"
    /\ Executed(p, UpdatePlaylist(View(p), call[p].url, now),
                "sp_select_playlist", call[p])

SaveSelectPlaylist(p) ==
    /\ pc[p] = "sp_select_playlist"
    /\ Executed(p, View(p),
                IF call[p].videos = <<>> THEN "commit" ELSE "sp_insert_video",
                [call[p] EXCEPT !.playlist_id = SelectPlaylistId(View(p), call[p].url)])

SaveInsertVideo(p) ==
    /\ pc[p] = "sp_insert_video"
    /\ LET v == call[p].videos[call[p].i]
       IN  Executed(p, InsertOrIgnoreVideo(View(p), v[1], v[2], now),
                    "sp_update_video", call[p])

SaveUpdateVideo(p) ==
    /\ pc[p] = "sp_update_video"
    /\ LET v == call[p].videos[call[p].i]
       IN  Executed(p, UpdateVideo(View(p), v[1], now), "sp_insert_membership", call[p])

\* the membership insert, then vids.append([video_id, title])
SaveInsertMembershipNewOnly(p) ==
    /\ pc[p] = "sp_insert_membership"
    /\ LET v == call[p].videos[call[p].i]
           d == InsertOrIgnoreMembership(View(p), call[p].playlist_id, v[1], now)
       IN  Executed(p, d,
                    IF call[p].i = Len(call[p].videos) THEN "commit" ELSE "sp_insert_video",
                    [call[p] EXCEPT !.i = @ + 1,
                                    !.vids = IF d # View(p) THEN Append(@, v) ELSE @])

SaveInsertMembership(p) ==
    /\ pc[p] = "sp_insert_membership"
    /\ LET v == call[p].videos[call[p].i]
       IN  Executed(p, InsertOrIgnoreMembership(View(p), call[p].playlist_id, v[1], now),
                    IF call[p].i = Len(call[p].videos) THEN "commit" ELSE "sp_insert_video",
                    [call[p] EXCEPT !.i = @ + 1, !.vids = Append(@, v)])

\* ---- comments_exist(video_id), called first by download_comments
StartDownloadComments(p) ==
    /\ pc[p] = "ready"
    /\ \E v \in Videos :
          call' = [call EXCEPT ![p] =
                      [op |-> "download_comments", video |-> v, exists |-> FALSE,
                       comments |-> <<>>, i |-> 1, fetches |-> 0, writes |-> 0,
                       hadRows |-> \E k \in 1..Len(db.comments) :
                                       db.comments[k].video_id = v]]
    /\ pc' = [pc EXCEPT ![p] = "ce_select"]
    /\ UNCHANGED <<schema, db, tx, writer, exclusive, readers, now, ewr, err,
                   listing, feed, sync>>

\* cur.execute("SELECT EXISTS(...)") on a connection of its own: it reads the
\* committed file under a SHARED lock, and is not run through execute_with_retry
ExistsSelect(p) ==
    /\ pc[p] = "ce_select"
    /\ ~Blocked(p)
    /\ readers' = readers \cup {p}
    /\ call' = [call EXCEPT ![p].exists = SelectCommentsExist(db, call[p].video)]
    /\ pc' = [pc EXCEPT ![p] = "ce_fetchone"]
    /\ UNCHANGED <<schema, db, tx, writer, exclusive, now, ewr, err, listing, feed, sync>>

ExistsSelectFailed(p) ==
    /\ pc[p] = "ce_select"
    /\ \E e \in StoreErrors(p) : Raise(p, e)

\* fetchone() ends the statement and gives the SHARED lock back; conn.close();
\* if comments_exist(video_id): return task
ExistsReturn(p) ==
    /\ pc[p] = "ce_fetchone"
    /\ readers' = readers \ {p}
    /\ pc' = [pc EXCEPT ![p] = IF call[p].exists THEN "done" ELSE "dc_fetch"]
    /\ UNCHANGED <<schema, db, tx, writer, exclusive, now, ewr, call, err, listing, feed, sync>>

\* ---- download_comments(video_id): the fetch and the loop
Fetch(p) ==
    /\ pc[p] = "dc_fetch"
    /\ \E s \in feed[call[p].video] :
          /\ call' = [call EXCEPT ![p].comments = s, ![p].fetches = @ + 1]
          /\ pc' = [pc EXCEPT ![p] = IF s = <<>> THEN "commit" ELSE "dc_insert_comment"]
    /\ UNCHANGED <<schema, db, tx, writer, exclusive, readers, now, ewr, err,
                   listing, feed, sync>>

FetchFailed(p) ==
    /\ pc[p] = "dc_fetch"
    /\ Raise(p, FetchError)

InsertComment(p) ==
    /\ pc[p] = "dc_insert_comment"
    /\ LET c == call[p].comments[call[p].i]
       IN  Executed(p, InsertOrIgnoreComment(View(p), c.cid, call[p].video, c.text,
                                             c.author, CoerceVotes(c.votes), c.time_parsed),
                    "dc_insert_fts", [call[p] EXCEPT !.writes = @ + 1])

InsertFts(p) ==
    /\ pc[p] = "dc_insert_fts"
    /\ LET c == call[p].comments[call[p].i]
       IN  Executed(p, InsertOrReplaceFts(View(p), c.cid, c.text),
                    IF call[p].i = Len(call[p].comments) THEN "commit"
                    ELSE "dc_insert_comment",
                    [call[p] EXCEPT !.writes = @ + 1, !.i = @ + 1])

\* ---- conn.commit(); conn.close(); return
\* the commit needs the EXCLUSIVE lock, which waits for the readers to go
Commit(p) ==
    /\ pc[p] = "commit"
    /\ ~Blocked(p)
    /\ IF writer = p
       THEN /\ exclusive' = TRUE
            /\ pc' = [pc EXCEPT ![p] = "committing"]
       ELSE /\ pc' = [pc EXCEPT ![p] = "done"]
            /\ UNCHANGED exclusive
    /\ UNCHANGED <<schema, db, tx, writer, readers, now, ewr, call, err, listing, feed, sync>>

CommittedKeepsLock(p) ==
    /\ pc[p] = "committing"
    /\ db' = tx
    /\ pc' = [pc EXCEPT ![p] = "done"]
    /\ UNCHANGED <<schema, tx, writer, exclusive, readers, now, ewr, call, err,
                   listing, feed, sync>>

Committed(p) ==
    /\ pc[p] = "committing"
    /\ db' = tx
    /\ writer' = NoProc
    /\ exclusive' = FALSE
    /\ pc' = [pc EXCEPT ![p] = "done"]
    /\ UNCHANGED <<schema, tx, readers, now, ewr, call, err, listing, feed, sync>>

\* conn.commit() is called directly: whatever it raises leaves the operation
CommitFailed(p) ==
    /\ pc[p] = "commit"
    /\ writer = p
    /\ \E e \in StoreErrors(p) : Raise(p, e)

\* ---- the environment
Tick ==
    /\ now < MaxClock
    /\ now' = now + 1
    /\ UNCHANGED <<schema, db, tx, writer, exclusive, readers, pc, ewr, call, err,
                   listing, feed, sync>>

\* Ctrl-C: KeyboardInterrupt is caught at the top level, sys.exit(0); the
\* connection goes away with whatever it had not committed
InterruptUncaught(p) ==
    /\ pc[p] \notin Final \cup {"idle"}
    /\ pc' = [pc EXCEPT ![p] = "interrupted"]
    /\ ewr' = [ewr EXCEPT ![p] = "try"]
    /\ call' = [call EXCEPT ![p] = Aborted(@)]
    /\ err' = [err EXCEPT ![p] = [cls |-> "KeyboardInterrupt", msg |-> <<>>]]
    /\ RolledBack(p)
    /\ UNCHANGED <<schema, now, listing, feed, sync>>

Interrupt(p) ==
    /\ pc[p] \notin Final \cup {"idle"}
    /\ pc' = [pc EXCEPT ![p] = "interrupted"]
    /\ ewr' = [ewr EXCEPT ![p] = "try"]
    /\ call' = [call EXCEPT ![p] = Aborted(@)]
    /\ err' = [err EXCEPT ![p] = SystemExit(0)]
    /\ RolledBack(p)
    /\ UNCHANGED <<schema, now, listing, feed, sync>>

InitDbStep(p) ==
    StartInitDb(p) \/ CreateTable(p) \/ CreateTableDone(p) \/ InitDbReturn(p)

SavePlaylistStep(p) ==
    \/ StartSavePlaylist(p) \/ SaveInsertPlaylist(p) \/ SaveUpdatePlaylist(p)
    \/ SaveSelectPlaylist(p) \/ SaveInsertVideo(p) \/ SaveUpdateVideo(p)
    \/ SaveInsertMembership(p)

DownloadCommentsStep(p) ==
    \/ StartDownloadComments(p) \/ ExistsSelect(p) \/ ExistsSelectFailed(p)
    \/ ExistsReturn(p) \/ Fetch(p) \/ FetchFailed(p) \/ InsertComment(p) \/ InsertFts(p)

StoreStep(p) ==
    Commit(p) \/ Committed(p) \/ CommitFailed(p) \/ ExecuteFailed(p) \/ Retry(p)

Next ==
    \/ Tick
    \/ \E p \in Procs :
          \/ ParseArgsFailed(p)
          \/ InitDbStep(p) \/ SavePlaylistStep(p) \/ DownloadCommentsStep(p)
          \/ StoreStep(p) \/ Interrupt(p)

Spec == Init /\ [][Next]_vars

\* ------------------------------------------------- the full sync, run twice
\* One run: init_db, save_playlist for the playlist, then download_comments
\* for each item save_playlist returned, in order.  The second run starts
\* when the first has finished; the collaborators return the same listing and
\* the same comments in both.
SyncPlaylist == "P1"
FirstRun == "p1"
SecondRun == "p2"

\* the tables without the timestamp fields
Strip(d) ==
    [playlists |-> [i \in 1..Len(d.playlists) |->
                       [id |-> d.playlists[i].id, name |-> d.playlists[i].name]],
     videos |-> [i \in 1..Len(d.videos) |->
                    [id |-> d.videos[i].id, title |-> d.videos[i].title,
                     is_available |-> d.videos[i].is_available]],
     playlist_videos |-> [i \in 1..Len(d.playlist_videos) |->
                             [playlist_id |-> d.playlist_videos[i].playlist_id,
                              video_id |-> d.playlist_videos[i].video_id]],
     comments |-> d.comments,
     fts_comments |-> d.fts_comments]

InitSync ==
    /\ InitStore
    /\ \E L \in Listings : listing = [u \in Playlists |-> {L}]
    /\ \E F \in [Videos -> Feeds] : feed = [v \in Videos |-> {F[v]}]
    /\ sync = [stage |-> [p \in Procs |-> "save"], todo |-> [p \in Procs |-> <<>>],
               snap |-> EmptyDb]

SyncStart(p) ==
    /\ p = SecondRun => sync.stage[FirstRun] = "finished"
    /\ StartInitDb(p)

SyncSavePlaylist(p) ==
    /\ sync.stage[p] = "save"
    /\ StartSavePlaylist(p)
    /\ call'[p].url = SyncPlaylist

SyncDownloadComments(p) ==
    /\ sync.stage[p] = "comments"
    /\ StartDownloadComments(p)
    /\ call'[p].video = Head(sync.todo[p])

\* an operation of the run has returned: on to the next item, or the run is over
SyncAdvance(p) ==
    /\ pc[p] = "done"
    /\ sync.stage[p] \in {"save", "comments"}
    /\ LET rest == IF call[p].op = "save_playlist"
                   THEN [k \in 1..Len(call[p].vids) |-> call[p].vids[k][1]]
                   ELSE Tail(sync.todo[p])
       IN  IF rest = <<>>
           THEN /\ sync' = [sync EXCEPT !.stage[p] = "finished", !.todo[p] = <<>>,
                                        !.snap = IF p = FirstRun THEN Strip(db) ELSE @]
                /\ UNCHANGED pc
           ELSE /\ sync' = [sync EXCEPT !.stage[p] = "comments", !.todo[p] = rest]
                /\ pc' = [pc EXCEPT ![p] = "ready"]
    /\ UNCHANGED <<schema, db, tx, writer, exclusive, readers, now, ewr, call, err,
                   listing, feed>>

NextSync ==
    \/ Tick
    \/ \E p \in Procs :
          \/ SyncStart(p) \/ CreateTable(p) \/ CreateTableDone(p) \/ InitDbReturn(p)
          \/ SyncSavePlaylist(p) \/ SaveInsertPlaylist(p) \/ SaveUpdatePlaylist(p)
          \/ SaveSelectPlaylist(p) \/ SaveInsertVideo(p) \/ SaveUpdateVideo(p)
          \/ SaveInsertMembership(p)
          \/ SyncDownloadComments(p) \/ ExistsSelect(p) \/ ExistsReturn(p)
          \/ Fetch(p) \/ InsertComment(p) \/ InsertFts(p)
          \/ Commit(p) \/ Committed(p)
          \/ SyncAdvance(p)

SpecSync == InitSync /\ [][NextSync]_vars

\* ----------------------------------- main: get_playlist_videos, save_playlist
\* One invocation, past init_db, reads the collaborator's standard output,
\* parses it line by line and hands the pairs to save_playlist.
Parser == "p1"
AllTables == {TableOrder[k] : k \in 1..Len(TableOrder)}

InitParse ==
    /\ schema = AllTables
    /\ db = EmptyDb
    /\ tx = EmptyDb
    /\ writer = NoProc
    /\ exclusive = FALSE
    /\ readers = {}
    /\ now = 0
    /\ pc = [p \in Procs |-> IF p = Parser THEN "ready" ELSE "idle"]
    /\ ewr = [p \in Procs |-> "try"]
    /\ call = [p \in Procs |-> NoCall]
    /\ err = [p \in Procs |-> NoErr]
    /\ \E out \in Stdouts : listing = [u \in Playlists |-> {out}]
    /\ feed = [v \in Videos |-> {<<>>}]
    /\ sync = NoSync

\* result = subprocess.run(...); result.stdout.strip().split("\n")
StartGetPlaylistVideos(p) ==
    /\ pc[p] = "ready"
    /\ \E url \in Playlists : \E out \in listing[url] :
          call' = [call EXCEPT ![p] =
                      [op |-> "get_playlist_videos", url |-> url,
                       lines |-> StrSplit(StrStrip(out), Newline, -1),
                       i |-> 1, videos |-> <<>>, reported |-> <<>>]]
    /\ pc' = [pc EXCEPT ![p] = "gpv_line"]
    /\ UNCHANGED <<schema, db, tx, writer, exclusive, readers, now, ewr, err,
                   listing, feed, sync>>

\* one turn of the loop: if line: try: video_id, title = line.split("\t", 1)
\* ... except ValueError: console.print(...)
ParseLineAborting(p) ==
    /\ pc[p] = "gpv_line"
    /\ LET line == call[p].lines[call[p].i]
           parts == StrSplit(line, Tab, 1)
           bad == line # <<>> /\ Len(parts) # 2
       IN  /\ call' = [call EXCEPT
                          ![p].i = @ + 1,
                          ![p].videos = IF line # <<>> /\ Len(parts) = 2
                                        THEN Append(@, <<parts[1], parts[2]>>) ELSE @,
                          ![p].reported = IF bad THEN Append(@, line) ELSE @]
           /\ pc' = [pc EXCEPT ![p] = IF bad \/ call[p].i = Len(call[p].lines)
                                      THEN "gpv_return" ELSE "gpv_line"]
    /\ UNCHANGED <<schema, db, tx, writer, exclusive, readers, now, ewr, err,
                   listing, feed, sync>>

ParseLine(p) ==
    /\ pc[p] = "gpv_line"
    /\ LET line == call[p].lines[call[p].i]
           parts == StrSplit(line, Tab, 1)
       IN  call' = [call EXCEPT
                       ![p].i = @ + 1,
                       ![p].videos = IF line # <<>> /\ Len(parts) = 2
                                     THEN Append(@, <<parts[1], parts[2]>>) ELSE @,
                       ![p].reported = IF line # <<>> /\ Len(parts) # 2
                                       THEN Append(@, line) ELSE @]
    /\ pc' = [pc EXCEPT ![p] = IF call[p].i = Len(call[p].lines)
                               THEN "gpv_return" ELSE "gpv_line"]
    /\ UNCHANGED <<schema, db, tx, writer, exclusive, readers, now, ewr, err,
                   listing, feed, sync>>

\* return videos; main: vids = save_playlist(playlist_url, videos)
MainSavePlaylist(p) ==
    /\ pc[p] = "gpv_return"
    /\ call' = [call EXCEPT ![p] = SaveCall(call[p].url, call[p].videos)]
    /\ pc' = [pc EXCEPT ![p] = "sp_insert_playlist"]
    /\ UNCHANGED <<schema, db, tx, writer, exclusive, readers, now, ewr, err,
                   listing, feed, sync>>

NextParse ==
    \E p \in {Parser} :
        \/ StartGetPlaylistVideos(p) \/ ParseLine(p) \/ MainSavePlaylist(p)
        \/ SaveInsertPlaylist(p) \/ SaveUpdatePlaylist(p) \/ SaveSelectPlaylist(p)
        \/ SaveInsertVideo(p) \/ SaveUpdateVideo(p) \/ SaveInsertMembership(p)
        \/ Commit(p) \/ Committed(p)

SpecParse == InitParse /\ [][NextParse]_vars

\* ------------------------------------------- download_comments on any votes
\* One invocation, past init_db, runs download_comments against a comment
\* collaborator whose records carry any of the vote fields.
InitVotes ==
    /\ schema = AllTables
    /\ db = EmptyDb
    /\ tx = EmptyDb
    /\ writer = NoProc
    /\ exclusive = FALSE
    /\ readers = {}
    /\ now = 0
    /\ pc = [p \in Procs |-> IF p = Parser THEN "ready" ELSE "idle"]
    /\ ewr = [p \in Procs |-> "try"]
    /\ call = [p \in Procs |-> NoCall]
    /\ err = [p \in Procs |-> NoErr]
    /\ listing = [u \in Playlists |-> {<<>>}]
    /\ \E F \in SeqsUpTo(VoteRecords, MaxComments) : feed = [v \in Videos |-> {F}]
    /\ sync = NoSync

NextVotes ==
    \E p \in {Parser} :
        \/ StartDownloadComments(p) \/ ExistsSelect(p) \/ ExistsReturn(p)
        \/ Fetch(p) \/ InsertComment(p) \/ InsertFts(p)
        \/ Commit(p) \/ Committed(p)

SpecVotes == InitVotes /\ [][NextVotes]_vars

\* ------------------------------------------------ fair scheduling of the runs
\* The invocations are operating-system processes: each one that can take a
\* step eventually takes one (time.sleep returns, a statement that can run
\* runs).  The collaborators return; the user may or may not interrupt.
InitLive ==
    /\ InitStore
    /\ listing = [u \in Playlists |-> {<< <<"v1", "Title A">> >>}]
    /\ feed = [v \in Videos |->
                  {<< [cid |-> "c1", text |-> "t1", author |-> "a1",
                       votes |-> NoneValue, time_parsed |-> 1] >>}]
    /\ sync = NoSync

ProcStep(p) ==
    \/ InitDbStep(p) \/ SavePlaylistStep(p) \/ StoreStep(p)
    \/ StartDownloadComments(p) \/ ExistsSelect(p) \/ ExistsSelectFailed(p)
    \/ ExistsReturn(p) \/ Fetch(p) \/ InsertComment(p) \/ InsertFts(p)

NextLive ==
    \/ Tick
    \/ \E p \in Procs : ProcStep(p) \/ Interrupt(p)

Fairness == \A p \in Procs : WF_vars(ProcStep(p))

SpecLive == InitLive /\ [][NextLive]_vars /\ Fairness

\* ------------------------------------ items marked unavailable from outside
\* Nothing in downloader.py clears is_available; the flag is cleared by another
\* program writing the same file, in a transaction of its own.
MarkUnavailable(v) ==
    /\ writer = NoProc
    /\ readers = {}
    /\ \E i \in 1..Len(db.videos) : db.videos[i].id = v /\ db.videos[i].is_available = 1
    /\ db' = [db EXCEPT !.videos =
                 [i \in 1..Len(@) |->
                     IF @[i].id = v THEN [@[i] EXCEPT !.is_available = 0] ELSE @[i]]]
    /\ tx' = db'
    /\ UNCHANGED <<schema, writer, exclusive, readers, now, pc, ewr, call, err,
                   listing, feed, sync>>

NextAvail ==
    \/ Tick
    \/ \E v \in Videos : MarkUnavailable(v)
    \/ \E p \in Procs :
          \/ InitDbStep(p) \/ SavePlaylistStep(p)
          \/ Commit(p) \/ Committed(p) \/ ExecuteFailed(p) \/ Retry(p)

SpecAvail == Init /\ [][NextAvail]_vars

\* ------------------------------------------------------------------ claims
Count(t, P(_)) == Cardinality({i \in 1..Len(t) : P(t[i])})
HasRows(d, v) == \E i \in 1..Len(d.comments) : d.comments[i].video_id = v
SavedBy(p) == pc[p] = "done" /\ call[p].op = "save_playlist"
Downloading(p) == call[p].op = "download_comments" /\ pc[p] \notin {"raised", "interrupted"}

\* C1: when the second full sync has finished, the tables are what the first
\* left (timestamps aside), with no duplicate rows and no duplicate full-text
\* entries.
C1_Idempotent ==
    sync.stage[SecondRun] = "finished" =>
        /\ Strip(db) = sync.snap
        /\ \A i, j \in 1..Len(db.playlists) :
              db.playlists[i].name = db.playlists[j].name => i = j
        /\ \A i, j \in 1..Len(db.videos) : db.videos[i].id = db.videos[j].id => i = j
        /\ \A i, j \in 1..Len(db.playlist_videos) :
              (/\ db.playlist_videos[i].playlist_id = db.playlist_videos[j].playlist_id
               /\ db.playlist_videos[i].video_id = db.playlist_videos[j].video_id)
              => i = j
        /\ \A i, j \in 1..Len(db.comments) : db.comments[i].id = db.comments[j].id => i = j
        /\ \A i, j \in 1..Len(db.fts_comments) :
              db.fts_comments[i].id = db.fts_comments[j].id => i = j

\* C2: in every reachable state there is at most one comment row per comment
\* id, at most one playlist row per name and at most one membership row per
\* (playlist id, video id), in the committed file and in the open
\* transaction; and every playlist whose save_playlist has returned has
\* exactly one row, and every (playlist, item) pair it observed exactly one
\* membership row.
C2_Dedup ==
    /\ \A d \in {db, tx} :
          /\ \A i, j \in 1..Len(d.comments) :
                d.comments[i].id = d.comments[j].id => i = j
          /\ \A i, j \in 1..Len(d.playlists) :
                d.playlists[i].name = d.playlists[j].name => i = j
          /\ \A i, j \in 1..Len(d.playlist_videos) :
                (/\ d.playlist_videos[i].playlist_id = d.playlist_videos[j].playlist_id
                 /\ d.playlist_videos[i].video_id = d.playlist_videos[j].video_id)
                => i = j
    /\ \A p \in Procs : SavedBy(p) =>
          /\ Count(db.playlists, LAMBDA r : r.name = call[p].url) = 1
          /\ \A k \in 1..Len(call[p].vids) :
                Count(db.playlist_videos,
                      LAMBDA r : /\ r.video_id = call[p].vids[k][1]
                                 /\ \E i \in 1..Len(db.playlists) :
                                       /\ db.playlists[i].name = call[p].url
                                       /\ db.playlists[i].id = r.playlist_id) = 1

\* two invocations have synced the same playlist and observed a common item
C2_Witness ==
    \E p, q \in Procs :
        /\ p # q /\ SavedBy(p) /\ SavedBy(q)
        /\ call[p].url = call[q].url
        /\ \E k \in 1..Len(call[p].vids) : \E m \in 1..Len(call[q].vids) :
              call[p].vids[k][1] = call[q].vids[m][1]

\* C3: a download_comments call that was invoked while the item had a
\* committed comment row makes no call to the comment collaborator and no
\* write to the store.
C3_NoFetchWhenPersisted ==
    \A p \in Procs :
        (Downloading(p) /\ call[p].hadRows) =>
            /\ call[p].fetches = 0
            /\ call[p].writes = 0
            /\ writer # p

C3_Witness ==
    \E p \in Procs :
        /\ call[p].op = "download_comments" /\ pc[p] = "done"
        /\ call[p].hadRows /\ call[p].exists

\* C4: every comment id has at most one entry in fts_comments, also when the
\* same id is written more than once.
C4_FtsAtMostOne ==
    \A i, j \in 1..Len(db.fts_comments) :
        db.fts_comments[i].id = db.fts_comments[j].id => i = j

\* C5: a "database is locked" failure never propagates out of an operation.
C5_LockedNeverSurfaced ==
    \A p \in Procs : pc[p] = "raised" => err[p] # LockedError

\* C6: inside execute_with_retry a statement goes to sleep only on a
\* "database is locked" failure and is then retried unchanged (same statement,
\* same parameters, store untouched), however often; what propagates is never
\* that failure; and a successful execution applies the statement once (one
\* more fts_comments row for the full-text insert).
C6_RetryClassification ==
    [][\A p \in Procs :
          /\ (pc[p] \in RetryStmts /\ ewr[p] = "try" /\ ewr'[p] = "sleep") =>
                /\ Blocked(p)
                /\ pc'[p] = pc[p] /\ call'[p] = call[p]
                /\ db' = db /\ tx' = tx
          /\ (pc[p] \in RetryStmts /\ pc'[p] = "raised") => err'[p] \in OtherErrors
          /\ (ewr[p] = "sleep" /\ pc'[p] # "interrupted") =>
                /\ pc'[p] = pc[p] /\ call'[p] = call[p]
                /\ ewr'[p] \in {"sleep", "try"}
          /\ (pc[p] = "dc_insert_fts" /\ pc'[p] \in {"commit", "dc_insert_comment"}) =>
                Len(tx'.fts_comments) = Len(View(p).fts_comments) + 1
      ]_vars

\* a statement is waiting for the lock another invocation's transaction holds
C6_Witness ==
    \E p, q \in Procs :
        /\ ewr[p] = "sleep" /\ pc[p] \in RetryStmts
        /\ writer = q /\ q # p

\* C7 (amended): when a download_comments call that fetched commits, and the
\* fetched sequence holds a record whose id is not stored under another item,
\* the item has rows afterwards (SYNCED); an item that has rows keeps them;
\* and a call invoked for an item with rows fetches and writes nothing.
C7_SyncedOnceRowsExist ==
    [][/\ \A p \in Procs :
            (/\ call[p].op = "download_comments"
             /\ pc[p] = "committing" /\ pc'[p] = "done"
             /\ \E k \in 1..Len(call[p].comments) :
                   ~\E i \in 1..Len(db'.comments) :
                       /\ db'.comments[i].id = call[p].comments[k].cid
                       /\ db'.comments[i].video_id # call[p].video)
            => HasRows(db', call[p].video)
       /\ \A v \in Videos : HasRows(db, v) => HasRows(db', v)
       /\ \A p \in Procs :
            (call'[p].op = "download_comments" /\ pc'[p] \notin {"raised", "interrupted"}
             /\ call'[p].hadRows)
            => call'[p].fetches = 0 /\ call'[p].writes = 0
      ]_vars

\* one invocation fetched and committed rows for an item, and a later call
\* for that item returned without fetching
C7_Witness ==
    \E p, q \in Procs :
        /\ p # q
        /\ call[p].op = "download_comments" /\ pc[p] = "done" /\ call[p].fetches = 1
        /\ call[q].op = "download_comments" /\ pc[q] = "done" /\ call[q].hadRows
        /\ call[q].video = call[p].video /\ call[q].fetches = 0

\* C7 as stated: every successful fetch for an item without rows, an empty
\* sequence included, leaves the item with rows.
C7_Original ==
    \A p \in Procs :
        (/\ call[p].op = "download_comments" /\ pc[p] = "done"
         /\ ~call[p].hadRows /\ call[p].fetches = 1)
        => HasRows(db, call[p].video)

C9_TitleFullText ==
    \A p \in Procs : SavedBy(p) =>
        \A k \in 1..Len(call[p].vids) :
            Count(TitleFullText(db), LAMBDA r : r.id = call[p].vids[k][1]) = 1

\* C10: the membership statement of save_playlist leaves the pair's row with
\* a last_updated of the current sync (not older than the call).
C10_MembershipRefreshed ==
    [][\A p \in Procs :
          (pc[p] = "sp_insert_membership" /\ pc'[p] \in {"commit", "sp_insert_video"})
          => \A i \in 1..Len(tx'.playlist_videos) :
                (/\ tx'.playlist_videos[i].playlist_id = call[p].playlist_id
                 /\ tx'.playlist_videos[i].video_id = call[p].videos[call[p].i][1])
                => tx'.playlist_videos[i].last_updated >= call[p].t0
      ]_vars

\* C11: when a save_playlist call commits, every item of its listing has
\* is_available = 1 and a last_updated of that sync (not older than the call,
\* not later than the commit), whatever the flag was before; this covers the
\* items that were marked unavailable.
C11_Resurrection ==
    [][\A p \in Procs :
          (call[p].op = "save_playlist" /\ pc[p] = "committing" /\ pc'[p] = "done")
          => \A k \in 1..Len(call[p].videos) :
                \E i \in 1..Len(db'.videos) :
                    /\ db'.videos[i].id = call[p].videos[k][1]
                    /\ db'.videos[i].is_available = 1
                    /\ db'.videos[i].last_updated >= call[p].t0
                    /\ db'.videos[i].last_updated <= now
      ]_vars

\* a sync that started while one of its items was marked unavailable has
\* committed, and the item is available again
C11_Witness ==
    \E p \in Procs :
        /\ SavedBy(p)
        /\ \E k \in 1..Len(call[p].vids) :
              /\ call[p].vids[k][1] \in call[p].unavail
              /\ \E i \in 1..Len(db.videos) :
                    /\ db.videos[i].id = call[p].vids[k][1]
                    /\ db.videos[i].is_available = 1

\* C12: a comment row that exists stays as it is: no step changes the
\* video_id, text, author, votes or time_parsed of a committed row, and no
\* statement of a transaction changes a row the transaction already sees.
C12_CommentsWriteOnce ==
    [][/\ \A i \in 1..Len(db.comments) :
            \E j \in 1..Len(db'.comments) : db'.comments[j] = db.comments[i]
       /\ \A p \in Procs :
            (pc[p] = "dc_insert_comment" /\ pc'[p] = "dc_insert_fts")
            => \A i \in 1..Len(View(p).comments) :
                  \E j \in 1..Len(tx'.comments) : tx'.comments[j] = View(p).comments[i]
      ]_vars

\* the comment insert has run for a record whose id is already stored with
\* another text
C12_Witness ==
    \E p \in Procs :
        /\ pc[p] = "dc_insert_fts" /\ writer = p
        /\ \E k \in 1..Len(tx.comments) :
              /\ tx.comments[k].id = call[p].comments[call[p].i].cid
              /\ tx.comments[k].text # call[p].comments[call[p].i].text

\* C13: an item row that exists keeps its title: no step changes the title of
\* a committed row, and the two item statements of save_playlist, run for an
\* id that already has a row, leave that row's id and title as they were and
\* add no row, whatever title the listing carries.
C13_TitleNotRefreshed ==
    [][/\ \A i \in 1..Len(db.videos) :
            \E j \in 1..Len(db'.videos) :
                /\ db'.videos[j].id = db.videos[i].id
                /\ db'.videos[j].title = db.videos[i].title
       /\ \A p \in Procs :
            (/\ pc[p] \in {"sp_insert_video", "sp_update_video"}
             /\ pc'[p] \in {"sp_update_video", "sp_insert_membership"})
            => \A i \in 1..Len(View(p).videos) :
                  /\ tx'.videos[i].id = View(p).videos[i].id
                  /\ tx'.videos[i].title = View(p).videos[i].title
                  /\ (\E k \in 1..Len(View(p).videos) :
                         View(p).videos[k].id = call[p].videos[call[p].i][1])
                     => Len(tx'.videos) = Len(View(p).videos)
      ]_vars

\* a sync has committed a listing that carries, for a known item, a title
\* other than the stored one
C13_Witness ==
    \E p \in Procs :
        /\ SavedBy(p)
        /\ \E k \in 1..Len(call[p].vids) : \E i \in 1..Len(db.videos) :
              /\ db.videos[i].id = call[p].vids[k][1]
              /\ db.videos[i].title # call[p].vids[k][2]

\* ---- the lines of a string, by position
Out(u) == CHOOSE s \in listing[u] : TRUE
\* a line starts at a: at the start of the string or right after a newline
LineStarts(s) == {a \in 1..(Len(s) + 1) : a = 1 \/ s[a - 1] = Newline}
\* and ends before the next newline (at a - 1 when it is empty)
LineEnd(s, a) ==
    CHOOSE b \in (a - 1)..Len(s) :
        /\ b = Len(s) \/ s[b + 1] = Newline
        /\ \A i \in a..b : s[i] # Newline
Tabs(s, a) == {i \in a..LineEnd(s, a) : s[i] = Tab}
Text(s, a) == SubSeq(s, a, LineEnd(s, a))
\* well-formed: an id, one tab, a title; malformed: some text with no tab
WellFormed(s) ==
    {a \in LineStarts(s) :
        Cardinality(Tabs(s, a)) = 1 /\ s[a] # Tab /\ s[LineEnd(s, a)] # Tab}
Malformed(s) == {a \in LineStarts(s) : a <= LineEnd(s, a) /\ Tabs(s, a) = {}}
TabLines(s) == {a \in LineStarts(s) : Tabs(s, a) # {}}
PairOf(s, a) ==
    LET t == CHOOSE i \in Tabs(s, a) : \A j \in Tabs(s, a) : i <= j
    IN  <<SubSeq(s, a, t - 1), SubSeq(s, t + 1, LineEnd(s, a))>>

\* C14: get_playlist_videos returns the pair of every well-formed line of the
\* output, in the order of the lines, whether malformed lines stand before or
\* after it; every malformed line is reported and adds no pair; and when
\* save_playlist has reconciled the result, every well-formed line's item has
\* a row and a membership row, and there are no more item rows than lines
\* with a tab.
C14_MalformedLineSkipped ==
    \A p \in Procs :
        /\ (call[p].op = "get_playlist_videos" /\ pc[p] = "gpv_return") =>
              LET s == Out(call[p].url)
                  v == call[p].videos
              IN  /\ \A a \in WellFormed(s) : \E k \in 1..Len(v) : v[k] = PairOf(s, a)
                  /\ \A a1, a2 \in WellFormed(s) :
                        a1 < a2 => \E k1, k2 \in 1..Len(v) :
                                      /\ k1 < k2
                                      /\ v[k1] = PairOf(s, a1)
                                      /\ v[k2] = PairOf(s, a2)
                  /\ \A a \in Malformed(s) :
                        \E k \in 1..Len(call[p].reported) :
                            call[p].reported[k] = Text(s, a)
                  /\ Len(v) <= Cardinality(TabLines(s))
        /\ SavedBy(p) =>
              LET s == Out(call[p].url)
              IN  /\ \A a \in WellFormed(s) :
                        /\ \E i \in 1..Len(db.videos) : db.videos[i].id = PairOf(s, a)[1]
                        /\ \E i \in 1..Len(db.playlist_videos) :
                              /\ db.playlist_videos[i].video_id = PairOf(s, a)[1]
                              /\ db.playlist_videos[i].playlist_id = call[p].playlist_id
                  /\ Len(db.videos) <= Cardinality(TabLines(s))

\* the listing had a well-formed line, a malformed one and another
\* well-formed one, and the sync has committed
C14_Witness ==
    \E p \in Procs :
        /\ SavedBy(p)
        /\ LET s == Out(call[p].url)
           IN  \E a1, a3 \in WellFormed(s) : \E a2 \in Malformed(s) :
                  a1 < a2 /\ a2 < a3 /\ Len(db.videos) = 1

\* the string without its leading and trailing whitespace
Core(s) ==
    LET I == {i \in 1..Len(s) : s[i] \notin Whitespace}
    IN  IF I = {} THEN <<>>
        ELSE SubSeq(s, CHOOSE i \in I : \A j \in I : i <= j, Max(I))
Rank(A, a) == Cardinality({x \in A : x < a}) + 1

\* C15 (amended): of the lines of the output, leading and trailing whitespace
\* of the whole output removed, every line with at least one tab yields the
\* pair (text before the first tab, rest of the line), in order, and every
\* non-empty line with no tab is reported, in order, and yields nothing;
\* empty lines yield nothing and are not reported.
C15_SplitAtFirstTab ==
    \A p \in Procs :
        (call[p].op = "get_playlist_videos" /\ pc[p] = "gpv_return") =>
            LET s == Core(Out(call[p].url))
                v == call[p].videos
                r == call[p].reported
            IN  /\ Len(v) = Cardinality(TabLines(s))
                /\ \A a \in TabLines(s) : v[Rank(TabLines(s), a)] = PairOf(s, a)
                /\ Len(r) = Cardinality(Malformed(s))
                /\ \A a \in Malformed(s) : r[Rank(Malformed(s), a)] = Text(s, a)

\* a line with two tabs has yielded a pair whose title holds the second tab,
\* next to a line with no tab that was reported
C15_Witness ==
    \E p \in Procs :
        /\ call[p].op = "get_playlist_videos" /\ pc[p] = "gpv_return"
        /\ \E k \in 1..Len(call[p].videos) :
              /\ call[p].videos[k][1] # <<>>
              /\ \E i \in 1..Len(call[p].videos[k][2]) : call[p].videos[k][2][i] = Tab
        /\ call[p].reported # <<>>

\* C15 as stated: every non-empty line without exactly one tab is reported,
\* and every pair returned comes from a line with exactly one tab (lines
\* taken, as above, after the whitespace around the whole output is removed).
C15_Original ==
    \A p \in Procs :
        (call[p].op = "get_playlist_videos" /\ pc[p] = "gpv_return") =>
            LET s == Core(Out(call[p].url))
            IN  /\ \A a \in LineStarts(s) :
                      (a <= LineEnd(s, a) /\ Cardinality(Tabs(s, a)) # 1)
                      => \E k \in 1..Len(call[p].reported) :
                            call[p].reported[k] = Text(s, a)
                /\ \A k \in 1..Len(call[p].videos) :
                      \E a \in LineStarts(s) :
                          /\ Cardinality(Tabs(s, a)) = 1
                          /\ call[p].videos[k] = PairOf(s, a)

\* C16: every comment row holds an integer vote count: 12 for the numeric
\* string "12" (-5 for "-5", 7 for the number 7), 0 for a null, missing, empty
\* or non-numeric vote field; and no record's vote field keeps the batch from
\* being written: when the call has returned, every fetched record has its row.
C16_VoteCoercion ==
    /\ \A i \in 1..Len(tx.comments) :
          LET r == tx.comments[i]
          IN  /\ r.votes \in Int
              /\ r.text = "numeric" => r.votes = 12
              /\ r.text = "negative" => r.votes = 0 - 5
              /\ r.text = "number" => r.votes = 7
              /\ r.text \in {"null", "missing", "empty", "letters", "suffixed"}
                    => r.votes = 0
    /\ \A p \in Procs :
          (call[p].op = "download_comments" /\ pc[p] = "done" /\ call[p].fetches = 1)
          => \A k \in 1..Len(call[p].comments) :
                \E i \in 1..Len(db.comments) :
                    /\ db.comments[i].id = call[p].comments[k].cid
                    /\ db.comments[i].votes \in Int

\* a batch with a non-numeric vote field followed by a numeric one was
\* written in full
C16_Witness ==
    \E p \in Procs :
        /\ call[p].op = "download_comments" /\ pc[p] = "done"
        /\ Len(call[p].comments) = 2
        /\ call[p].comments[1].text = "suffixed"
        /\ call[p].comments[2].text = "numeric"
        /\ Len(db.comments) = 2
        /\ db.comments[1].votes = 0 /\ db.comments[2].votes = 12

\* C17: save_playlist handles the pairs in the order of the listing (vids is
\* at every moment the pairs handled so far, and the item statements are run
\* for the next pair), and what it returns is the listing itself: same pairs,
\* same order, same length, known and repeated items included.
C17_ResultIsListing ==
    \A p \in Procs :
        (call[p].op = "save_playlist" /\ pc[p] \notin {"raised", "interrupted"}) =>
            /\ call[p].vids = SubSeq(call[p].videos, 1, call[p].i - 1)
            /\ pc[p] \in {"sp_update_video", "sp_insert_membership"} =>
                  \E k \in 1..Len(tx.videos) :
                      tx.videos[k].id = call[p].videos[Len(call[p].vids) + 1][1]
            /\ pc[p] = "done" => call[p].vids = call[p].videos

\* a sync has returned a listing of two pairs with the same id
C17_Witness ==
    \E p \in Procs :
        /\ SavedBy(p)
        /\ Len(call[p].vids) = 2
        /\ call[p].vids[1][1] = call[p].vids[2][1]
        /\ call[p].vids[1][2] # call[p].vids[2][2]

\* C18 (amended): the process ends with code 0 when the script ran to its end
\* and when the user interrupted it, with code 2 when the playlist argument is
\* missing, and with a non-zero code after an error nobody handled.
C18_ExitCodes ==
    \A p \in Procs :
        /\ pc[p] = "done" => ExitCode(p) = 0
        /\ pc[p] = "interrupted" => ExitCode(p) = 0
        /\ pc[p] = "usage" => ExitCode(p) = 2
        /\ pc[p] = "raised" => ExitCode(p) # 0

\* one invocation was started without the argument, the other was interrupted
C18_Witness ==
    \E p, q \in Procs : pc[p] = "usage" /\ pc[q] = "interrupted" /\ ExitCode(q) = 0

\* C18 as stated: code 1 when the playlist argument is missing.
C18_Original ==
    \A p \in Procs :
        /\ pc[p] = "done" => ExitCode(p) = 0
        /\ pc[p] = "interrupted" => ExitCode(p) = 0
        /\ pc[p] = "usage" => ExitCode(p) = 1
        /\ pc[p] = "raised" => ExitCode(p) # 0

\* C19: under fair scheduling, with collaborators that return, every
\* invocation eventually ends, and a statement that sleeps in the retry loop
\* is eventually tried with the lock it needs free (or its process was
\* ended by the user): nobody waits for ever.
C19_NoDeadlock ==
    \A p \in Procs :
        /\ <>(pc[p] \in Final)
        /\ (ewr[p] = "sleep") ~> (ewr[p] = "try" /\ ~Blocked(p))

\* a writer sleeps in its retry loop while the other invocation commits
C19_Witness ==
    \E p, q \in Procs :
        /\ pc[p] = "committing" /\ writer = p
        /\ ewr[q] = "sleep" /\ pc[q] \in RetryStmts \ {"create"}

SaveStmts ==
    {"sp_insert_playlist", "sp_update_playlist", "sp_select_playlist",
     "sp_insert_video", "sp_update_video", "sp_insert_membership", "commit"}

\* C20: no statement of a save_playlist call changes the committed file; a
\* call that is interrupted or fails before its commit leaves the committed
\* file as it is and nothing of its transaction behind; and the commit makes
\* everything the call wrote visible in one step: the playlist row, and the
\* item row (available) and the membership row of every pair.
C20_AtomicPass ==
    [][\A p \in Procs :
          /\ (call[p].op = "save_playlist" /\ pc[p] \in SaveStmts /\ pc'[p] # pc[p])
             => /\ db' = db
                /\ pc'[p] \in {"raised", "interrupted"} =>
                      /\ writer = p => tx' = db
                      /\ writer' # p
          /\ (call[p].op = "save_playlist" /\ pc[p] = "committing" /\ pc'[p] = "done")
             => /\ db' = tx
                /\ \E i \in 1..Len(db'.playlists) :
                      /\ db'.playlists[i].name = call[p].url
                      /\ db'.playlists[i].id = call[p].playlist_id
                /\ \A k \in 1..Len(call[p].vids) :
                      /\ \E i \in 1..Len(db'.videos) :
                            /\ db'.videos[i].id = call[p].vids[k][1]
                            /\ db'.videos[i].is_available = 1
                      /\ \E i \in 1..Len(db'.playlist_videos) :
                            /\ db'.playlist_videos[i].playlist_id = call[p].playlist_id
                            /\ db'.playlist_videos[i].video_id = call[p].vids[k][1]
      ]_vars

\* a call was interrupted or failed after it had written, and the committed
\* file holds no row at all
C20_Witness ==
    \E p \in Procs :
        /\ pc[p] \in {"raised", "interrupted"}
        /\ call[p].op = "save_playlist" /\ call[p].partial
        /\ db = EmptyDb /\ tx = EmptyDb

====
